---- MODULE Spec2Model ----
(***************************************************************************)
(* Model of src/features/modals/NodeModal/index.tsx: the node-content      *)
(* modal of the JSON graph visualizer.  It covers the three helpers        *)
(* (normalizeNodeData, jsonPathToString, updateJsonAtPath), the React      *)
(* state of the modal (isEditing, editedContent) and its three handlers    *)
(* (handleEditToggle, handleSave, handleCancel), together with the two     *)
(* stores the handlers read and write.                                     *)
(*                                                                         *)
(* Representation.                                                         *)
(*  - A JavaScript string is a sequence of one-character strings, so that  *)
(*    the regular expressions, split and join of the path codec are        *)
(*    computed character by character.                                     *)
(*  - A JavaScript value is a record tagged by t: "null", "boolean",       *)
(*    "number", "string", "object" (o: the own properties in JavaScript's  *)
(*    property order), "array" (a: the elements, a hole where an index was *)
(*    never written; x: the non-index properties), "undefined".            *)
(*    Numbers are non-negative integers.                                   *)
(*  - A JSON text is the sequence of its lexical tokens; white space (the  *)
(*    2-space indentation of JSON.stringify(v, null, 2)) carries no        *)
(*    information and is not represented, string escapes are part of the   *)
(*    string token.  JSON.parse is a recursive-descent parser over tokens. *)
(*  - An exception thrown by a helper is the value Threw.                  *)
(***************************************************************************)
EXTENDS Integers, Sequences, FiniteSets, TLC

VARIABLES
    contents,       \* document text held by the store (useFile / useJson)
    selectedNode,   \* useGraph's selectedNode: NoNode or [text, path]
    opened,         \* the modal's `opened` prop
    isEditing,      \* React state of NodeModal
    editedContent,  \* React state of NodeModal: the edit buffer (a text)
    seed,           \* history: <<path>> of the node whose rows seeded the buffer
    h,              \* history: what the last handler did
    steps,          \* number of user events so far
    fpc,            \* function harness: which step comes next
    fin,            \* function harness: the inputs
    fout            \* function harness: the outputs

vars == <<contents, selectedNode, opened, isEditing, editedContent, seed, h,
          steps, fpc, fin, fout>>

uiVars == <<contents, selectedNode, opened, isEditing, editedContent, seed, h, steps>>

fnVars == <<fpc, fin, fout>>

-----------------------------------------------------------------------------
(* Strings *)

Digits == <<"0", "1", "2", "3", "4", "5", "6", "7", "8", "9">>

IsDigit(c) == \E i \in 1..10 : Digits[i] = c

DigitValue(c) == (CHOOSE i \in 1..10 : Digits[i] = c) - 1

AllDigits(s) == \A i \in 1..Len(s) : IsDigit(s[i])

RECURSIVE DecimalValue(_)
DecimalValue(s) ==
    IF s = <<>> THEN 0
    ELSE 10 * DecimalValue(SubSeq(s, 1, Len(s) - 1)) + DigitValue(s[Len(s)])

\* Number(seg) is not NaN.  The strings of this model are made of digits,
\* letters, the quote, the brackets and the dollar, and none of them is a
\* numeric literal with a sign, a point, an exponent or a radix prefix: such
\* a string converts to a number exactly when it consists of digits, and ""
\* converts to 0.
IsNumeric(s) == AllDigits(s)

\* Number(seg) for a numeric string
StringToNumber(s) == DecimalValue(s)

\* String(n) for an integer n >= 0
RECURSIVE NumberToString(_)
NumberToString(n) ==
    IF n < 10 THEN <<Digits[n + 1]>>
    ELSE NumberToString(n \div 10) \o <<Digits[(n % 10) + 1]>>

\* a canonical array index: the decimal numeral of an integer, no leading zero
IsIndex(s) == /\ s # <<>>
              /\ AllDigits(s)
              /\ (Len(s) > 1 => s[1] # "0")

StartsWith(s, pre) == /\ Len(s) >= Len(pre)
                      /\ SubSeq(s, 1, Len(pre)) = pre

EndsWith(s, suf) == /\ Len(s) >= Len(suf)
                    /\ SubSeq(s, Len(s) - Len(suf) + 1, Len(s)) = suf

\* s.split(sep), sep non-empty: the pieces between the occurrences of sep,
\* found left to right
RECURSIVE Split(_, _)
Split(s, sep) ==
    LET hits == {i \in 1..(Len(s) - Len(sep) + 1) : SubSeq(s, i, i + Len(sep) - 1) = sep}
    IN  IF hits = {} THEN <<s>>
        ELSE LET i == CHOOSE j \in hits : \A k \in hits : j <= k
             IN  <<SubSeq(s, 1, i - 1)>> \o Split(SubSeq(s, i + Len(sep), Len(s)), sep)

\* pieces.join(sep)
RECURSIVE Join(_, _)
Join(pieces, sep) ==
    IF pieces = <<>> THEN <<>>
    ELSE IF Len(pieces) = 1 THEN pieces[1]
    ELSE pieces[1] \o sep \o Join(Tail(pieces), sep)

\* s.replace(/"/g, "")
StripQuotes(s) == SelectSeq(s, LAMBDA c : c # "\"")

-----------------------------------------------------------------------------
(* Path codec *)

\* a segment of NodeData["path"]: a number [n |-> 3] or a string [s |-> <<"a">>]
NumSeg(n) == [n |-> n]
StrSeg(s) == [s |-> s]
IsNumSeg(seg) == DOMAIN seg = {"n"}

\* seg => (typeof seg === "number" ? seg : `"${seg}"`), then joined as text
SegmentText(seg) ==
    IF IsNumSeg(seg) THEN NumberToString(seg.n)
    ELSE <<"\"">> \o seg.s \o <<"\"">>

\* The optional argument is <<>> when it is undefined (no node selected) and
\* <<p>> when it is the path p.
jsonPathToString(path) ==
    IF path = <<>> \/ path[1] = <<>> THEN <<"$">>
    ELSE <<"$", "[">>
         \o Join([i \in 1..Len(path[1]) |-> SegmentText(path[1][i])], <<"]", "[">>)
         \o <<"]">>

\* path.replace(/^\$\[|\]$/g, "")
StripBrackets(path) ==
    LET s1 == IF StartsWith(path, <<"$", "[">>) THEN SubSeq(path, 3, Len(path)) ELSE path
    IN  IF EndsWith(s1, <<"]">>) THEN SubSeq(s1, 1, Len(s1) - 1) ELSE s1

\* seg => (isNaN(Number(seg)) ? seg.replace(/"/g, "") : Number(seg))
ParseSegment(seg) ==
    IF IsNumeric(seg) THEN NumSeg(StringToNumber(seg)) ELSE StrSeg(StripQuotes(seg))

\* the pathSegments of updateJsonAtPath
PathSegments(path) ==
    LET pieces == Split(StripBrackets(path), <<"]", "[">>)
    IN  [i \in 1..Len(pieces) |-> ParseSegment(pieces[i])]

-----------------------------------------------------------------------------
(* JavaScript values *)

Null == [t |-> "null"]
Undefined == [t |-> "undefined"]
Hole == [t |-> "hole"]
Bool(b) == [t |-> "boolean", b |-> b]
Num(n) == [t |-> "number", n |-> n]
Str(s) == [t |-> "string", s |-> s]
Obj(pairs) == [t |-> "object", o |-> pairs]
Arr(items) == [t |-> "array", a |-> items, x |-> <<>>]
Prop(k, v) == [k |-> k, v |-> v]
EmptyObject == Obj(<<>>)

\* an exception (TypeError, SyntaxError) thrown instead of a value
Threw == [t |-> "threw"]

IsScalar(v) == v.t \in {"null", "boolean", "number", "string"}

\* typeof v === "object"
TypeofIsObject(v) == v.t \in {"null", "object", "array"}

\* ToBoolean(v), as `||` and `!` apply it
Truthy(v) ==
    CASE v.t = "null" -> FALSE
      [] v.t = "undefined" -> FALSE
      [] v.t = "hole" -> FALSE
      [] v.t = "boolean" -> v.b
      [] v.t = "number" -> v.n # 0
      [] v.t = "string" -> v.s # <<>>
      [] OTHER -> TRUE

\* ToPropertyKey of a path segment: current[1] and current["1"] are one property
PropertyKey(seg) == IF IsNumSeg(seg) THEN NumberToString(seg.n) ELSE seg.s

HasKey(pairs, k) == \E i \in 1..Len(pairs) : pairs[i].k = k

Lookup(pairs, k) == pairs[CHOOSE i \in 1..Len(pairs) : pairs[i].k = k].v

\* pairs[k] = v in JavaScript's own-property order: an existing key keeps its
\* place, a new index key goes among the index keys in ascending order, any
\* other new key goes last
PairsSet(pairs, k, v) ==
    IF HasKey(pairs, k)
    THEN [i \in 1..Len(pairs) |-> IF pairs[i].k = k THEN Prop(k, v) ELSE pairs[i]]
    ELSE IF IsIndex(k)
    THEN LET before == {i \in 1..Len(pairs) :
                          /\ IsIndex(pairs[i].k)
                          /\ DecimalValue(pairs[i].k) < DecimalValue(k)}
             n == Cardinality(before)
         IN  SubSeq(pairs, 1, n) \o <<Prop(k, v)>> \o SubSeq(pairs, n + 1, Len(pairs))
    ELSE Append(pairs, Prop(k, v))

\* cur[k] read; Threw for a property of null or undefined
Get(cur, k) ==
    CASE cur.t \in {"null", "undefined"} -> Threw
      [] cur.t = "object" -> IF HasKey(cur.o, k) THEN Lookup(cur.o, k) ELSE Undefined
      [] cur.t = "array" ->
            IF IsIndex(k)
            THEN IF DecimalValue(k) < Len(cur.a) /\ cur.a[DecimalValue(k) + 1] # Hole
                 THEN cur.a[DecimalValue(k) + 1]
                 ELSE Undefined
            ELSE IF HasKey(cur.x, k) THEN Lookup(cur.x, k) ELSE Undefined
      [] cur.t = "string" ->
            IF IsIndex(k) /\ DecimalValue(k) < Len(cur.s)
            THEN Str(<<cur.s[DecimalValue(k) + 1]>>)
            ELSE Undefined
      [] OTHER -> Undefined

\* cur[k] = v, giving the container after the assignment.  The file is an ES
\* module, hence strict: assigning a property of a primitive (or of null)
\* throws a TypeError.
Set(cur, k, v) ==
    CASE cur.t = "object" -> [cur EXCEPT !.o = PairsSet(cur.o, k, v)]
      [] cur.t = "array" ->
            IF IsIndex(k)
            THEN LET i == DecimalValue(k) + 1
                     n == IF i > Len(cur.a) THEN i ELSE Len(cur.a)
                 IN  [cur EXCEPT !.a = [j \in 1..n |->
                                          IF j = i THEN v
                                          ELSE IF j <= Len(cur.a) THEN cur.a[j]
                                          ELSE Hole]]
            ELSE [cur EXCEPT !.x = PairsSet(cur.x, k, v)]
      [] OTHER -> Threw

-----------------------------------------------------------------------------
(* JSON text: JSON.stringify and JSON.parse *)

P(c) == [k |-> "punct", p |-> c]
Lit(w) == [k |-> "literal", l |-> w]
NumTok(n) == [k |-> "number", n |-> n]
StrTok(s) == [k |-> "string", s |-> s]
\* a lexeme that is not JSON (a bare word, a stray character)
Bad == [k |-> "bad"]

RECURSIVE Stringify(_), StringifyItems(_, _), StringifyProps(_, _)

\* JSON.stringify(v, null, 2), v not undefined
Stringify(v) ==
    CASE v.t = "null" -> <<Lit("null")>>
      [] v.t \in {"undefined", "hole"} -> <<Lit("null")>>   \* inside an array
      [] v.t = "boolean" -> <<Lit(IF v.b THEN "true" ELSE "false")>>
      [] v.t = "number" -> <<NumTok(v.n)>>
      [] v.t = "string" -> <<StrTok(v.s)>>
      [] v.t = "array" -> <<P("[")>> \o StringifyItems(v.a, 1) \o <<P("]")>>
      [] v.t = "object" ->
            <<P("{")>>
            \o StringifyProps(SelectSeq(v.o, LAMBDA pr : pr.v.t # "undefined"), 1)
            \o <<P("}")>>

StringifyItems(items, i) ==
    IF i > Len(items) THEN <<>>
    ELSE (IF i > 1 THEN <<P(",")>> ELSE <<>>)
         \o Stringify(items[i]) \o StringifyItems(items, i + 1)

StringifyProps(pairs, i) ==
    IF i > Len(pairs) THEN <<>>
    ELSE (IF i > 1 THEN <<P(",")>> ELSE <<>>)
         \o <<StrTok(pairs[i].k), P(":")>>
         \o Stringify(pairs[i].v) \o StringifyProps(pairs, i + 1)

Fail == [ok |-> FALSE]
Parsed(v, next) == [ok |-> TRUE, v |-> v, i |-> next]
TokIs(text, i, tok) == i <= Len(text) /\ text[i] = tok

RECURSIVE ParseValue(_, _), ParseItems(_, _, _), ParseProps(_, _, _)

\* the JSON value that starts at token i
ParseValue(text, i) ==
    IF i > Len(text) THEN Fail
    ELSE LET tok == text[i]
         IN  CASE tok.k = "literal" ->
                    Parsed(CASE tok.l = "null" -> Null
                             [] tok.l = "true" -> Bool(TRUE)
                             [] OTHER -> Bool(FALSE), i + 1)
               [] tok.k = "number" -> Parsed(Num(tok.n), i + 1)
               [] tok.k = "string" -> Parsed(Str(tok.s), i + 1)
               [] tok = P("[") ->
                    IF TokIs(text, i + 1, P("]")) THEN Parsed(Arr(<<>>), i + 2)
                    ELSE ParseItems(text, i + 1, <<>>)
               [] tok = P("{") ->
                    IF TokIs(text, i + 1, P("}")) THEN Parsed(EmptyObject, i + 2)
                    ELSE ParseProps(text, i + 1, <<>>)
               [] OTHER -> Fail

\* the elements of an array from token i on, up to the closing bracket
ParseItems(text, i, acc) ==
    LET r == ParseValue(text, i)
    IN  IF ~r.ok THEN Fail
        ELSE IF TokIs(text, r.i, P(",")) THEN ParseItems(text, r.i + 1, Append(acc, r.v))
        ELSE IF TokIs(text, r.i, P("]")) THEN Parsed(Arr(Append(acc, r.v)), r.i + 1)
        ELSE Fail

\* the members of an object from token i on, up to the closing brace; a
\* repeated key keeps its first place and its last value
ParseProps(text, i, acc) ==
    IF ~(i + 1 <= Len(text) /\ text[i].k = "string" /\ text[i + 1] = P(":")) THEN Fail
    ELSE LET r == ParseValue(text, i + 2)
         IN  IF ~r.ok THEN Fail
             ELSE LET acc2 == PairsSet(acc, text[i].s, r.v)
                  IN  IF TokIs(text, r.i, P(",")) THEN ParseProps(text, r.i + 1, acc2)
                      ELSE IF TokIs(text, r.i, P("}")) THEN Parsed(Obj(acc2), r.i + 1)
                      ELSE Fail

\* JSON.parse(text): [ok |-> TRUE, v |-> value], or [ok |-> FALSE] for the
\* SyntaxError
JsonParse(text) ==
    LET r == ParseValue(text, 1)
    IN  IF r.ok /\ r.i = Len(text) + 1 THEN [ok |-> TRUE, v |-> r.v] ELSE Fail

-----------------------------------------------------------------------------
(* Helper functions of the modal *)

\* a row of NodeData["text"]; key is <<>> when the row has no key (null or
\* undefined) and <<k>> when it has the key k
Row(key, value, type) == [key |-> key, value |-> value, type |-> type]

\* row.key as a condition: a key that is present and not the empty string
KeyTruthy(row) == row.key # <<>> /\ row.key[1] # <<>>

\* the reduce of normalizeNodeData, from row i on
RECURSIVE CompactJson(_, _, _)
CompactJson(nodeRows, i, acc) ==
    IF i > Len(nodeRows) THEN acc
    ELSE CompactJson(nodeRows, i + 1,
            IF KeyTruthy(nodeRows[i]) /\ ~TypeofIsObject(nodeRows[i].value)
            THEN PairsSet(acc, nodeRows[i].key[1], nodeRows[i].value)
            ELSE acc)

normalizeNodeData(nodeRows) ==
    IF Len(nodeRows) = 0 THEN <<P("{"), P("}")>>
    ELSE IF Len(nodeRows) = 1 /\ ~KeyTruthy(nodeRows[1]) THEN Stringify(nodeRows[1].value)
    ELSE Stringify(Obj(CompactJson(nodeRows, 1, <<>>)))

\* the loop and the final assignment of updateJsonAtPath on the clone: the
\* container `current` after `segments` were walked and newValue assigned
RECURSIVE WalkAndAssign(_, _, _)

\* the walk with `current = current[segment] = {}`: every intermediate
\* position gets a new empty object, whatever is there
WalkAlwaysCreating(current, segments, newValue) ==
    LET k == PropertyKey(segments[1])
    IN  IF Len(segments) = 1 THEN Set(current, k, newValue)
        ELSE LET sub == WalkAndAssign(EmptyObject, Tail(segments), newValue)
             IN  IF Get(current, k) = Threw \/ Set(current, k, EmptyObject) = Threw
                    \/ sub = Threw
                 THEN Threw
                 ELSE Set(current, k, sub)

WalkAndAssign(current, segments, newValue) ==
    LET k == PropertyKey(segments[1])
    IN  IF Len(segments) = 1 THEN Set(current, k, newValue)
        ELSE LET got == Get(current, k)
             IN  IF got = Threw THEN Threw
                 ELSE LET next == IF Truthy(got) THEN got ELSE EmptyObject
                          sub == WalkAndAssign(next, Tail(segments), newValue)
                      IN  IF Set(current, k, next) = Threw \/ sub = Threw THEN Threw
                          ELSE Set(current, k, sub)

\* the deep copy JSON.parse(JSON.stringify(jsonObj))
Clone(jsonObj) == JsonParse(Stringify(jsonObj)).v

updateJsonAtPath(jsonObj, path, newValue) ==
    IF path = <<>> THEN jsonObj
    ELSE WalkAndAssign(Clone(jsonObj), PathSegments(path), newValue)

\* Object.entries(v): Threw (TypeError) for null and undefined
ObjectEntries(v) ==
    CASE v.t \in {"null", "undefined"} -> Threw
      [] v.t = "object" -> v.o
      [] v.t = "array" ->
            LET idx == SelectSeq([i \in 1..Len(v.a) |-> i], LAMBDA i : v.a[i] # Hole)
            IN  [j \in 1..Len(idx) |-> Prop(NumberToString(idx[j] - 1), v.a[idx[j]])] \o v.x
      [] v.t = "string" -> [i \in 1..Len(v.s) |-> Prop(NumberToString(i - 1), Str(<<v.s[i]>>))]
      [] OTHER -> <<>>

\* the row list handleSave gives the selected node
EntriesToRows(entries) ==
    [i \in 1..Len(entries) |-> Row(<<entries[i].k>>, entries[i].v, "default")]

-----------------------------------------------------------------------------
(* The stores and the graph *)

NoNode == [none |-> TRUE]
Node(text, path) == [text |-> text, path |-> path]

\* the `type` tag of a row
TypeTag(v) == v.t

\* The row list of the node whose value is v: a bare scalar is one row with
\* no key, an object is one row per property.
RowsOf(v) ==
    IF v.t = "object" THEN [i \in 1..Len(v.o) |-> Row(<<v.o[i].k>>, v.o[i].v, TypeTag(v.o[i].v))]
    ELSE <<Row(<<>>, v, TypeTag(v))>>

\* the value at a structural path; Undefined when the path leaves the tree
RECURSIVE ValueAt(_, _)
ValueAt(v, path) ==
    IF path = <<>> THEN v
    ELSE IF v.t \notin {"object", "array"} THEN Undefined
    ELSE ValueAt(Get(v, PropertyKey(path[1])), Tail(path))

\* the structural paths of the locations of v: object keys are string
\* segments, array indices are number segments
RECURSIVE Locations(_)
Locations(v) ==
    {<<>>} \cup
    (CASE v.t = "object" ->
            UNION {{<<StrSeg(v.o[i].k)>> \o p : p \in Locations(v.o[i].v)} : i \in 1..Len(v.o)}
       [] v.t = "array" ->
            UNION {{<<NumSeg(i - 1)>> \o p : p \in Locations(v.a[i])} : i \in 1..Len(v.a)}
       [] OTHER -> {})

\* The nodes of the graph of document v: the root, every object, and every
\* scalar element of an array.
NodePaths(v) ==
    {p \in Locations(v) :
        LET val == ValueAt(v, p)
        IN  \/ val.t = "object"
            \/ /\ IsScalar(val)
               /\ (p = <<>> \/ IsNumSeg(p[Len(p)]))}

\* getJson(): the current document text
getJson == contents

-----------------------------------------------------------------------------
(* The component: values computed on each render *)

\* selectedNode?.path
nodePath == IF selectedNode = NoNode THEN <<>> ELSE <<selectedNode.path>>

fullJson == getJson

\* normalizeNodeData(selectedNode?.text || [])
normalizedData == normalizeNodeData(IF selectedNode = NoNode THEN <<>> ELSE selectedNode.text)

\* the record of a handler that is not Save
Did(op) == [op |-> op]

-----------------------------------------------------------------------------
(* Inputs *)

\* user events (clicks, edits of the text area) in one run
MaxSteps == 5

Ka == <<"a">>
Kc == <<"c">>
Kd == <<"d">>
Kk == <<"k">>
Kn == <<"n">>
\* a key that contains a double quote: q"
Kq == <<"q", "\"">>

DocNested == Obj(<<Prop(Ka, Obj(<<Prop(Kk, Num(1)), Prop(Kc, Obj(<<Prop(Kd, Num(2))>>))>>))>>)
DocNull == Obj(<<Prop(Ka, Obj(<<Prop(Kk, Num(1)), Prop(Kn, Null)>>))>>)
DocQuote == Obj(<<Prop(Kq, Obj(<<Prop(Kk, Num(1))>>))>>)
DocList == Arr(<<Num(1), Obj(<<Prop(Kk, Num(1))>>)>>)

\* the documents a run starts from
Documents == {DocNested, DocNull, DocQuote, DocList}

\* what the user may leave in the text area: two texts that are not JSON
\* ("{invalid" and the empty text), and JSON texts of the kinds of value
TypedTexts ==
    { <<P("{"), Bad>>,
      <<>>,
      Stringify(Null),
      Stringify(Num(2)),
      Stringify(Str(<<"a", "c">>)),
      Stringify(Obj(<<Prop(Kk, Num(2))>>)),
      Stringify(Obj(<<Prop(Kk, Null)>>)),
      Stringify(Arr(<<Num(3)>>)) }

-----------------------------------------------------------------------------
(* The handlers *)

\* Edit button (rendered while not editing)
handleEditToggle ==
    /\ opened /\ ~isEditing
    /\ editedContent' = IF ~isEditing THEN normalizedData ELSE editedContent
    /\ isEditing' = ~isEditing
    /\ seed' = IF ~isEditing THEN nodePath ELSE seed
    /\ h' = Did("edit")
    /\ UNCHANGED <<contents, selectedNode, opened>>

\* the text area's onChange (rendered while editing)
onChange ==
    /\ opened /\ isEditing
    /\ \E text \in TypedTexts : editedContent' = text
    /\ h' = Did("type")
    /\ UNCHANGED <<contents, selectedNode, opened, isEditing, seed>>

\* Cancel button (rendered while editing)
handleCancel ==
    /\ opened /\ isEditing
    /\ editedContent' = normalizedData
    /\ isEditing' = FALSE
    /\ seed' = nodePath
    /\ h' = Did("cancel")
    /\ UNCHANGED <<contents, selectedNode, opened>>

\* Object.entries(parsedContent) throws
EntriesThrow(v) == v.t \in {"null", "undefined"}

\* The try block of handleSave, statement by statement: the stores and the
\* component state as the statements executed so far leave them, and whether
\* a statement threw.
SaveTry ==
    LET parsedContent == JsonParse(editedContent)
        document == JsonParse(fullJson)
        updatedJson == updateJsonAtPath(document.v, jsonPathToString(nodePath),
                                        parsedContent.v)
        start == [contents |-> contents, selectedNode |-> selectedNode,
                  isEditing |-> isEditing, toasts |-> <<>>,
                  setContentsCalls |-> 0, setStateCalls |-> 0, threw |-> FALSE]
    IN  IF ~parsedContent.ok \/ ~document.ok THEN [start EXCEPT !.threw = TRUE]
        ELSE IF updatedJson = Threw THEN [start EXCEPT !.threw = TRUE]
        ELSE LET written == [start EXCEPT !.contents = Stringify(updatedJson),
                                          !.setContentsCalls = 1]
             IN  IF selectedNode = NoNode
                 THEN [written EXCEPT !.setStateCalls = 1, !.toasts = <<"success">>,
                                      !.isEditing = FALSE]
                 ELSE IF EntriesThrow(parsedContent.v) THEN [written EXCEPT !.threw = TRUE]
                 ELSE [written EXCEPT
                         !.selectedNode.text = EntriesToRows(ObjectEntries(parsedContent.v)),
                         !.setStateCalls = 1,
                         !.toasts = <<"success">>,
                         !.isEditing = FALSE]

\* a catch block that also leaves the edit mode
SaveCatchClosingEditor(r) ==
    IF r.threw THEN [r EXCEPT !.toasts = Append(r.toasts, "error"), !.isEditing = FALSE]
    ELSE r

\* the catch block of handleSave
SaveCatch(r) == IF r.threw THEN [r EXCEPT !.toasts = Append(r.toasts, "error")] ELSE r

\* Save button (rendered while editing)
handleSave ==
    /\ opened /\ isEditing
    /\ LET r == SaveCatch(SaveTry)
           parsedContent == JsonParse(editedContent)
       IN  /\ contents' = r.contents
           /\ selectedNode' = r.selectedNode
           /\ isEditing' = r.isEditing
           /\ h' = [op |-> "save", after |-> h.op, parsed |-> parsedContent.ok,
                    setContentsCalls |-> r.setContentsCalls,
                    setStateCalls |-> r.setStateCalls,
                    toasts |-> r.toasts]
    /\ UNCHANGED <<opened, editedContent, seed>>

\* CloseButton, or the modal's own onClose
onClose ==
    /\ opened
    /\ opened' = FALSE
    /\ h' = Did("close")
    /\ UNCHANGED <<contents, selectedNode, isEditing, editedContent, seed>>

\* A click on a node of the graph: the node becomes the selected node and the
\* modal opens.  NodeModal stays mounted while closed (it is handed `opened`),
\* so isEditing and editedContent are what they were.
SelectNode ==
    /\ ~opened
    /\ \E p \in NodePaths(JsonParse(contents).v) :
          selectedNode' = Node(RowsOf(ValueAt(JsonParse(contents).v, p)), p)
    /\ opened' = TRUE
    /\ h' = Did("select")
    /\ UNCHANGED <<contents, isEditing, editedContent, seed>>

Init ==
    /\ contents \in {Stringify(d) : d \in Documents}
    /\ selectedNode = NoNode
    /\ opened = FALSE
    /\ isEditing = FALSE
    /\ editedContent = <<>>
    /\ seed = <<>>
    /\ h = Did("init")
    /\ steps = 0
    /\ fpc = "unused" /\ fin = <<>> /\ fout = <<>>

\* one user event
Step == steps < MaxSteps /\ steps' = steps + 1

Next ==
    \/ Step /\ handleEditToggle /\ UNCHANGED fnVars
    \/ Step /\ onChange /\ UNCHANGED fnVars
    \/ Step /\ handleCancel /\ UNCHANGED fnVars
    \/ Step /\ handleSave /\ UNCHANGED fnVars
    \/ Step /\ onClose /\ UNCHANGED fnVars
    \/ Step /\ SelectNode /\ UNCHANGED fnVars

Spec == Init /\ [][Next]_vars

-----------------------------------------------------------------------------
(* The helper functions on their own: each specification draws the inputs   *)
(* of one helper and applies it.                                            *)

\* the state of the modal while a helper is exercised
UiIdle ==
    /\ contents = Stringify(EmptyObject)
    /\ selectedNode = NoNode
    /\ opened = FALSE
    /\ isEditing = FALSE
    /\ editedContent = <<>>
    /\ seed = <<>>
    /\ h = Did("init")
    /\ steps = 0

\* sequences over S of length at most n
RECURSIVE SeqsUpTo(_, _)
SeqsUpTo(S, n) ==
    IF n = 0 THEN {<<>>}
    ELSE LET shorter == SeqsUpTo(S, n - 1)
         IN  shorter \cup {Append(q, x) : q \in shorter, x \in S}

Kx == <<"x">>
Ky == <<"y">>

\* segments of a structural path
MaxPathLen == 2

\* indices, plain keys, a key that is a numeral, the empty key, a key with a
\* quote and a key with the text ][
Segments ==
    { NumSeg(0), NumSeg(1), NumSeg(10),
      StrSeg(Ka), StrSeg(<<"1">>), StrSeg(<<>>), StrSeg(Kq),
      StrSeg(<<"a", "]", "[", "c">>) }

CodecInit ==
    /\ UiIdle
    /\ fpc = "serialize"
    /\ fin \in [path : SeqsUpTo(Segments, MaxPathLen)]
    /\ fout = <<>>

Serialize ==
    /\ fpc = "serialize"
    /\ fout' = [text |-> jsonPathToString(<<fin.path>>)]
    /\ fpc' = "deserialize"
    /\ UNCHANGED fin

Deserialize ==
    /\ fpc = "deserialize"
    /\ fout' = [text |-> fout.text, segments |-> PathSegments(fout.text)]
    /\ fpc' = "done"
    /\ UNCHANGED fin

CodecNext ==
    \/ Serialize /\ UNCHANGED uiVars
    \/ Deserialize /\ UNCHANGED uiVars

SpecCodec == CodecInit /\ [][CodecNext]_vars

\* documents to patch: with and without the walked keys, with falsy and
\* truthy scalars and with containers where the path passes
PatchDocuments ==
    { EmptyObject,
      Obj(<<Prop(Kx, Num(0))>>),
      Obj(<<Prop(Kx, Null)>>),
      Obj(<<Prop(Kx, Num(7))>>),
      Obj(<<Prop(Kx, Str(Ka))>>),
      Obj(<<Prop(Kx, Obj(<<Prop(Kk, Num(1))>>)), Prop(Kk, Bool(TRUE))>>),
      Obj(<<Prop(Ka, Obj(<<Prop(Kk, Num(1))>>))>>),
      DocNested, DocQuote, DocList,
      Num(1), Null }

PatchPaths ==
    { <<>>,
      <<StrSeg(Kx)>>, <<StrSeg(Kx), StrSeg(Ky)>>, <<StrSeg(Kx), StrSeg(Kk)>>,
      <<StrSeg(Ka), StrSeg(Kk)>>, <<StrSeg(Ka), StrSeg(Kc), StrSeg(Kd)>>,
      <<StrSeg(Kq)>>, <<StrSeg(Kq), StrSeg(Kk)>>,
      <<NumSeg(0)>>, <<NumSeg(1), StrSeg(Kk)>>, <<NumSeg(3), StrSeg(Ky)>> }

NewValues == {Num(5), Null, Obj(<<Prop(Kd, Num(2))>>)}

PatchInit ==
    /\ UiIdle
    /\ fpc = "serialize"
    /\ fin \in [document : PatchDocuments, path : PatchPaths, newValue : NewValues]
    /\ fout = <<>>

\* handleSave's jsonPathToString(nodePath)
PatchSerialize ==
    /\ fpc = "serialize"
    /\ fout' = [text |-> jsonPathToString(<<fin.path>>)]
    /\ fpc' = "patch"
    /\ UNCHANGED fin

Patch ==
    /\ fpc = "patch"
    /\ fout' = [text |-> fout.text,
                result |-> updateJsonAtPath(fin.document, fout.text, fin.newValue)]
    /\ fpc' = "done"
    /\ UNCHANGED fin

PatchNext ==
    \/ PatchSerialize /\ UNCHANGED uiVars
    \/ Patch /\ UNCHANGED uiVars

SpecPatch == PatchInit /\ [][PatchNext]_vars

\* rows of a node
MaxRows == 2

\* rows with scalar values of each kind, with structured values, without a
\* key and with the empty key
RowPool ==
    { Row(<<Ka>>, Num(1), "number"),
      Row(<<Kk>>, Str(Kx), "string"),
      Row(<<Kd>>, Bool(FALSE), "boolean"),
      Row(<<Kn>>, Null, "null"),
      Row(<<Kc>>, Obj(<<Prop(<<"nested">>, Bool(TRUE))>>), "object"),
      Row(<<Ky>>, Arr(<<Num(1)>>), "array"),
      Row(<<>>, Num(2), "number"),
      Row(<<<<>>>>, Num(3), "number") }

\* the rows of a node have distinct keys
DistinctKeys(rows) ==
    \A i, j \in 1..Len(rows) : (i # j /\ rows[i].key # <<>>) => rows[i].key # rows[j].key

NormalizeInit ==
    /\ UiIdle
    /\ fpc = "normalize"
    /\ fin \in [rows : {r \in SeqsUpTo(RowPool, MaxRows) : DistinctKeys(r)}]
    /\ fout = <<>>

Normalize ==
    /\ fpc = "normalize"
    /\ fout' = [text |-> normalizeNodeData(fin.rows)]
    /\ fpc' = "done"
    /\ UNCHANGED fin

NormalizeNext == Normalize /\ UNCHANGED uiVars

SpecNormalize == NormalizeInit /\ [][NormalizeNext]_vars

-----------------------------------------------------------------------------
(* Properties *)

Keys(pairs) == {pairs[i].k : i \in 1..Len(pairs)}

\* deep equality of two results: the same kind of value, the same scalars,
\* the same elements in the same order, the same keys with deep-equal values
\* (in any order); an exception equals nothing
RECURSIVE DeepEq(_, _)
DeepEq(v, w) ==
    /\ v.t = w.t
    /\ v.t # "threw"
    /\ CASE v.t = "object" ->
                /\ Keys(v.o) = Keys(w.o)
                /\ \A k \in Keys(v.o) : DeepEq(Lookup(v.o, k), Lookup(w.o, k))
         [] v.t = "array" ->
                /\ Len(v.a) = Len(w.a)
                /\ \A i \in 1..Len(v.a) : DeepEq(v.a[i], w.a[i])
                /\ Keys(v.x) = Keys(w.x)
                /\ \A k \in Keys(v.x) : DeepEq(Lookup(v.x, k), Lookup(w.x, k))
         [] OTHER -> v = w

\* p is a prefix of q
IsPrefix(p, q) == Len(p) <= Len(q) /\ SubSeq(q, 1, Len(p)) = p

\* C1: patching at the root path "$" returns a document deep-equal to the
\* document: nothing is added, removed or changed.
RootNoOp ==
    (fpc = "done" /\ fin.path = <<>>) =>
        /\ fout.text = <<"$">>
        /\ DeepEq(fout.result, fin.document)

\* C2: parsing the path string that jsonPathToString gives for a structural
\* path gives the path back, segment by segment, kinds included.
PathRoundTrip ==
    fpc = "done" => fout.segments = fin.path

\* C3: patching at a non-root path that exists in the document puts the new
\* value at the path and leaves every location that is neither the path, nor
\* below it, nor a prefix of it as it was.
PatchCorrect ==
    (fpc = "done" /\ fin.path # <<>> /\ fin.path \in Locations(fin.document)) =>
        /\ fout.result # Threw
        /\ ValueAt(fout.result, fin.path) = fin.newValue
        /\ \A q \in Locations(fin.document) :
              (~IsPrefix(fin.path, q) /\ ~IsPrefix(q, fin.path)) =>
                  ValueAt(fout.result, q) = ValueAt(fin.document, q)

\* the rows that the skip rule keeps, in row order: the key is present and
\* the value is a string, a number, a boolean or null
KeptRows(rows) ==
    SelectSeq(rows, LAMBDA row : row.key # <<>> /\ row.value.t \notin {"object", "array"})

\* C7: for a row list that is neither empty nor a single row with an absent
\* key, normalizeNodeData gives the text of the object that holds, in row
\* order, exactly the rows with a present key and a scalar value (null
\* included).
NormalizeSkipRule ==
    (/\ fpc = "done"
     /\ fin.rows # <<>>
     /\ ~(Len(fin.rows) = 1 /\ fin.rows[1].key = <<>>)) =>
        LET kept == KeptRows(fin.rows)
        IN  fout.text = Stringify(Obj([i \in 1..Len(kept) |-> Prop(kept[i].key[1], kept[i].value)]))

\* the segments updateJsonAtPath walks, and the first i of them
WalkedSegments == PathSegments(fout.text)
WalkedPrefix(i) == SubSeq(WalkedSegments, 1, i)

\* `now` is `was` with at most the property k changed: the same kind of
\* container, every other property as it was
SameButFor(was, now, k) ==
    /\ now.t = was.t
    /\ \A q \in Locations(was) :
          (Len(q) = 1 /\ PropertyKey(q[1]) # k) => ValueAt(now, q) = ValueAt(was, q)

\* the value found at an intermediate position is kept: not replaced by
\* another value, changed only along the path
KeptAt(i) ==
    LET was == ValueAt(fin.document, WalkedPrefix(i))
        now == ValueAt(fout.result, WalkedPrefix(i))
    IN  IF was.t \in {"object", "array"}
        THEN SameButFor(was, now, PropertyKey(WalkedSegments[i + 1]))
        ELSE now = was

\* an empty object was created at an intermediate position: what is there now
\* is an object that holds the next segment's key and nothing else
CreatedAt(i) ==
    LET now == ValueAt(fout.result, WalkedPrefix(i))
    IN  /\ now.t = "object"
        /\ Keys(now.o) = {PropertyKey(WalkedSegments[i + 1])}

NonRootPatchDone == fpc = "done" /\ fout.text # <<"$">>

FalsyAt(i) == ~Truthy(ValueAt(fin.document, WalkedPrefix(i)))

\* an object or an array is at position i (position 0 is the document)
ContainerAt(i) == ValueAt(fin.document, WalkedPrefix(i)).t \in {"object", "array"}

\* the document is a container and every intermediate position holds
\* nothing, a falsy scalar or a container
Walkable ==
    /\ ContainerAt(0)
    /\ \A i \in 1..(Len(WalkedSegments) - 1) : FalsyAt(i) \/ ContainerAt(i)

SaveStep == steps' = steps + 1 /\ h'.op = "save"

\* C4: a Save with an edit buffer that is not JSON text leaves the workflow
\* in Editing and the buffer as it is, writes neither store, and reports a
\* failure and no success.
SaveFailurePath ==
    [][(SaveStep /\ isEditing /\ ~JsonParse(editedContent).ok) =>
          /\ isEditing'
          /\ editedContent' = editedContent
          /\ contents' = contents
          /\ selectedNode' = selectedNode
          /\ h'.setContentsCalls = 0
          /\ h'.setStateCalls = 0
          /\ h'.toasts = <<"error">>]_vars

\* C4's case: a Save of a buffer that is not JSON text has just run
SaveFailureWitness ==
    /\ h.op = "save"
    /\ ~h.parsed
    /\ ~JsonParse(editedContent).ok
    /\ isEditing

\* C5: a Save with a node selected and a buffer that parses writes the
\* document store once and the graph store once, reports success and no
\* failure, and ends in Viewing.
SaveSuccessPath ==
    (h.op = "save" /\ h.parsed /\ selectedNode # NoNode) =>
        /\ h.setContentsCalls = 1
        /\ h.setStateCalls = 1
        /\ h.toasts = <<"success">>
        /\ ~isEditing

\* a scalar, or an object whose values are all scalars
ScalarOrFlat(v) ==
    \/ IsScalar(v)
    \/ v.t = "object" /\ \A i \in 1..Len(v.o) : IsScalar(v.o[i].v)

\* C6: after a successful Save of a value that is a scalar or an object of
\* scalars, the document store holds the value at the node's path and the
\* rows in the graph store normalize to the text of the value.
StoresAgreeAfterSave ==
    (/\ h.op = "save"
     /\ h.toasts = <<"success">>
     /\ ScalarOrFlat(JsonParse(editedContent).v)) =>
        /\ ValueAt(JsonParse(contents).v, selectedNode.path) = JsonParse(editedContent).v
        /\ normalizeNodeData(selectedNode.text) = Stringify(JsonParse(editedContent).v)

\* C9: Edit followed at once by Save leaves the document's value as it was.
NoOpEditPreservesDocument ==
    [][(SaveStep /\ h.op = "edit") =>
          DeepEq(JsonParse(contents').v, JsonParse(contents).v)]_vars

\* C10: while editing, the buffer was seeded from the selected node, so a
\* Save writes at the path of the node whose rows seeded the buffer.
SaveTargetsEditedNode ==
    isEditing => seed = nodePath

====
